---- MODULE Spec2Model ----
(***************************************************************************)
(* Code Level Metrics of the Go agent (v3/newrelic/code_level_metrics.go): *)
(* code locations, the memoizing CachedCodeLocation, the TraceOption chain *)
(* and reportCodeLevelMetrics.                                             *)
(*                                                                         *)
(* Go strings are TLA+ strings (Len, SubSeq and \o act on them).  A        *)
(* *CodeLocation is an address into heap (0 is the nil pointer).  A Go     *)
(* slice is a record [nil, elems] so that a nil slice and an empty one are *)
(* different values, as they are for the == nil tests of the code.         *)
(***************************************************************************)
EXTENDS Integers, Sequences, FiniteSets, TLC

VARIABLES
    heap,       \* the allocated CodeLocation values; a pointer is an index
    cache,      \* the CachedCodeLocation instance: Location, Err, once.done
    onceM,      \* once.m, the mutex of the sync.Once: 0 or the holder
    options,    \* resolveCLMTraceOptions: the []TraceOption argument
    optIdx,     \* resolveCLMTraceOptions: position of the range loop
    optSet,     \* resolveCLMTraceOptions: the local optSet
    optPc,      \* resolveCLMTraceOptions: "loop" or "done"
    trail,      \* history: one entry per option the loop has called
    results,    \* history: the uncached resolutions made and what they returned
    pc,         \* goroutine -> its position in a method of the cache instance
    call,       \* goroutine -> the method it called and the arguments
    ret,        \* goroutine -> what the method returned to it
    tmpErr,     \* goroutine -> the error its resolution produced, not yet stored
    resolved,   \* history: each run of the guarded resolution, with its
                \* result and the call it ran in
    rep         \* goroutine -> its call of reportCodeLevelMetrics, a record:
                \*   reportIn    the caller's tOpts, run.Config and stack
                \*   tOpts       the call's own copy of tOpts (passed by value)
                \*   rpc         position in the function
                \*   location    var location CodeLocation
                \*   frames      the frames not yet read from the iterator
                \*   frame       var frame runtime.Frame
                \*   moreToRead  moreToRead
                \*   attrs       the calls of setAttr made so far
                \*   n           the number of reports the goroutine has started

optionVars == <<options, optIdx, optSet, optPc, trail>>
callerVars == <<pc, call, ret, tmpErr, resolved>>
reportVars == <<rep>>
vars == <<heap, cache, onceM, options, optIdx, optSet, optPc, trail, results,
          pc, call, ret, tmpErr, resolved, rep>>

----------------------------------------------------------------------------
(* Bounds of the model *)

MaxOpts == 3
MaxResolves == 3
MaxSkip == 2
NumCallers == 2
MaxDepth == 3

----------------------------------------------------------------------------
(* package strings *)

Min(a, b) == IF a <= b THEN a ELSE b

\* strings.HasPrefix(s, prefix)
HasPrefix(s, prefix) ==
    /\ Len(s) >= Len(prefix)
    /\ SubSeq(s, 1, Len(prefix)) = prefix

\* The byte offsets (from 0) at which substr occurs in s.
Occurrences(s, substr) ==
    { i \in 0..(Len(s) - Len(substr)) : SubSeq(s, i + 1, i + Len(substr)) = substr }

SetMin(S) == CHOOSE x \in S : \A y \in S : x <= y
SetMax(S) == CHOOSE x \in S : \A y \in S : x >= y

\* strings.Index(s, substr): the first occurrence, or -1
Index(s, substr) ==
    IF Occurrences(s, substr) = {} THEN -1 ELSE SetMin(Occurrences(s, substr))

\* strings.LastIndex(s, substr): the last occurrence, or -1
LastIndex(s, substr) ==
    IF Occurrences(s, substr) = {} THEN -1 ELSE SetMax(Occurrences(s, substr))

\* s[from:] of Go, offsets from 0
SliceFrom(s, from) == SubSeq(s, from + 1, Len(s))

\* s[:to] of Go
SliceTo(s, to) == SubSeq(s, 1, to)

----------------------------------------------------------------------------
(* Slices, pointers, errors *)

NilSlice == [nil |-> TRUE, elems |-> <<>>]
MkSlice(elems) == [nil |-> FALSE, elems |-> elems]

\* append(s, x): the result is never nil
AppendSlice(s, x) == [nil |-> FALSE, elems |-> Append(s.elems, x)]

NilPtr == 0
NilErr == "<nil>"

defaultAgentProjectRoot == "github.com/newrelic/go-agent/"

\* type CodeLocation, and its zero value (var loc CodeLocation)
MkLocation(line, function, file) ==
    [LineNo |-> line, Function |-> function, FilePath |-> file]
ZeroLocation == MkLocation(0, "", "")

\* &loc: a fresh heap cell holding loc; the pointer is its index
Alloc(h, loc) == [heap |-> Append(h, loc), ptr |-> Len(h) + 1]

----------------------------------------------------------------------------
(* Function values handed to FunctionLocation, and the runtime's table of   *)
(* function metadata (runtime.FuncForPC).                                  *)

NilFunction  == [kind |-> "nil",  pc |-> 0]   \* the nil interface value
IntValue     == [kind |-> "int",  pc |-> 0]   \* 42: a value that is no func
NilFuncValue == [kind |-> "func", pc |-> 0]   \* a nil func: no metadata
HandlerFunc  == [kind |-> "func", pc |-> 1]
OtherFunc    == [kind |-> "func", pc |-> 2]

FunctionValues == {NilFunction, IntValue, NilFuncValue, HandlerFunc, OtherFunc}

FuncTable ==
    (1 :> [Name |-> "mypkg/sub.Handler",
           File |-> "/home/user/project/src/pkg/file.go", Line |-> 12])
    @@ (2 :> [Name |-> "main.other",
              File |-> "/home/user/project/main.go", Line |-> 40])

\* The location the runtime's metadata gives for a function value.
LocationOf(function) ==
    MkLocation(FuncTable[function.pc].Line, FuncTable[function.pc].Name,
               FuncTable[function.pc].File)

ErrNilFunction == "nil function passed to FunctionLocation"
ErrNotFunction == "value passed to FunctionLocation is not a function"
ErrNoLocation  == "could not find code location for function"

\* runtime.FuncForPC(v.Pointer()) != nil
HasFuncInfo(function) == function.pc \in DOMAIN FuncTable

\* The kind of the value is not examined.
KindNotExamined(function) == TRUE

\* reflect: v.IsValid() && v.Kind() == reflect.Func
IsFuncKind(function) == function.kind = "func"

\* func FunctionLocation(function interface{}) (*CodeLocation, error)
FunctionLocation(function, h) ==
    IF function = NilFunction
    THEN [loc |-> NilPtr, err |-> ErrNilFunction, heap |-> h]
    ELSE IF ~IsFuncKind(function)
    THEN [loc |-> NilPtr, err |-> ErrNotFunction, heap |-> h]
    ELSE IF HasFuncInfo(function)
    THEN LET fInfo == FuncTable[function.pc]
             a == Alloc(h, MkLocation(fInfo.Line, fInfo.Name, fInfo.File))
         IN  [loc |-> a.ptr, err |-> NilErr, heap |-> a.heap]
    ELSE [loc |-> NilPtr, err |-> ErrNoLocation, heap |-> h]

----------------------------------------------------------------------------
(* Call stacks.  A stack is the sequence of its frames, innermost first;   *)
(* runtime.Callers(skip, pcs) skips the first skip frames of the stack it  *)
(* is called on (frame 0 is runtime.Callers itself) and fills pcs.         *)

MkFrame(function, file, line) ==
    [Function |-> function, File |-> file, Line |-> line]

FrameApp ==
    MkFrame("mypkg/sub.Handler", "/home/user/project/src/pkg/file.go", 30)
FrameLib ==
    MkFrame("lib/mux.Serve", "/home/user/src/lib/src/mux.go", 55)
FrameAgent ==
    MkFrame("github.com/newrelic/go-agent/v3/newrelic.(*Application).StartTransaction",
            "/go/pkg/mod/github.com/newrelic/go-agent/v3/newrelic/application.go", 100)

FrameCallers ==
    MkFrame("runtime.Callers", "/usr/local/go/src/runtime/extern.go", 331)
FrameThisCodeLocation ==
    MkFrame("github.com/newrelic/go-agent/v3/newrelic.ThisCodeLocation",
            "/go/pkg/mod/github.com/newrelic/go-agent/v3/newrelic/code_level_metrics.go",
            335)

\* The stacks of the call sites that call ThisCodeLocation.
CallSites == { <<FrameApp>>, <<FrameApp, FrameLib>> }

\* The skipLevels arguments: none, or one skip count.
SkipArgs == { <<>> } \cup { <<k>> : k \in 0..MaxSkip }

\* pcs := make([]uintptr, 10)
PcsLen == 10

\* runtime.Callers(skip, pcs): the frames recorded in pcs[:depth]
Callers(skip, stack) ==
    SubSeq(stack, skip + 1, Min(Len(stack), skip + PcsLen))

\* func ThisCodeLocation(skipLevels ...int) *CodeLocation, called with
\* callerStack the stack of its caller.
ThisCodeLocation(skipLevels, callerStack, h) ==
    LET skip == IF Len(skipLevels) > 0 THEN 2 + skipLevels[1] ELSE 2
        pcs == Callers(skip, <<FrameCallers, FrameThisCodeLocation>> \o callerStack)
        loc == IF Len(pcs) > 0
               THEN MkLocation(pcs[1].Line, pcs[1].Function, pcs[1].File)
               ELSE ZeroLocation
        a == Alloc(h, loc)
    IN  [loc |-> a.ptr, heap |-> a.heap]

----------------------------------------------------------------------------
(* The functions the methods of CachedCodeLocation hand to once.Do *)

FrameOnceFunc ==
    MkFrame("github.com/newrelic/go-agent/v3/newrelic.(*CachedCodeLocation).ThisCodeLocation.func1",
            "/go/pkg/mod/github.com/newrelic/go-agent/v3/newrelic/code_level_metrics.go",
            368)
FrameDoSlow == MkFrame("sync.(*Once).doSlow", "/usr/local/go/src/sync/once.go", 78)
FrameDo == MkFrame("sync.(*Once).Do", "/usr/local/go/src/sync/once.go", 69)
FrameCachedThisCodeLocation ==
    MkFrame("github.com/newrelic/go-agent/v3/newrelic.(*CachedCodeLocation).ThisCodeLocation",
            "/go/pkg/mod/github.com/newrelic/go-agent/v3/newrelic/code_level_metrics.go",
            366)

FrameCachedWithThisCodeLocation ==
    MkFrame("github.com/newrelic/go-agent/v3/newrelic.(*CachedCodeLocation).WithThisCodeLocation",
            "/go/pkg/mod/github.com/newrelic/go-agent/v3/newrelic/code_level_metrics.go",
            159)

\* The frames between the caller of c.ThisCodeLocation and ThisCodeLocation.
CachedWrapperFrames ==
    <<FrameOnceFunc, FrameDoSlow, FrameDo, FrameCachedThisCodeLocation>>

\* "add 4 skip levels to compensate for the internal calls used to get here"
CachedSkipAdjust == 4

\* c.Location, c.Err = FunctionLocation(function)
OnceFuncFunctionLocation(function, h) == FunctionLocation(function, h)

\* The skip count is handed on as it came, with nothing added.
OnceFuncNoAdjust(skiplevels, site, h) ==
    LET skip == IF Len(skiplevels) > 0 THEN skiplevels[1] ELSE 0
        r == ThisCodeLocation(<<skip>>, CachedWrapperFrames \o site, h)
    IN  [loc |-> r.loc, err |-> NilErr, heap |-> r.heap]

\* c.Location = ThisCodeLocation(skip + 4); c.Err = nil
OnceFuncThisCodeLocation(skiplevels, site, h) ==
    LET skip == IF Len(skiplevels) > 0 THEN skiplevels[1] ELSE 0
        r == ThisCodeLocation(<<skip + CachedSkipAdjust>>,
                              CachedWrapperFrames \o site, h)
    IN  [loc |-> r.loc, err |-> NilErr, heap |-> r.heap]

\* c.WithThisCodeLocation(): c.ThisCodeLocation(1), called from the frame of
\* the method, when the option is built.
OnceFuncWithThisCodeLocation(site, h) ==
    OnceFuncThisCodeLocation(<<1>>, <<FrameCachedWithThisCodeLocation>> \o site, h)

----------------------------------------------------------------------------
(* CachedCodeLocation: the zero value of the struct.  Its methods are       *)
(* modelled step by step further down, as several goroutines share it.     *)

FreshCache == [Location |-> NilPtr, Err |-> NilErr, done |-> 0]

----------------------------------------------------------------------------
(* A TraceOption is a func taking a pointer to a traceOptSet.  A closure   *)
(* that does not use a cache instance acts on st = [o, heap, r]: the       *)
(* traceOptSet it is handed, the heap, and the result of the function      *)
(* resolution it made, if it made one.                                     *)

\* No function resolution was made.
NoResolution == [loc |-> NilPtr, err |-> NilErr, ran |-> FALSE]

\* optSet := traceOptSet{}
ZeroOptSet ==
    [LocationOverride |-> NilPtr, SuppressCLM |-> FALSE, DemandCLM |-> FALSE,
     IgnoredPrefixes |-> NilSlice, PathPrefixes |-> NilSlice]

WithCodeLocation(loc, st) ==
    [st EXCEPT !.o.LocationOverride = loc]

WithIgnoredPrefix(prefix, st) ==
    [st EXCEPT !.o.IgnoredPrefixes = prefix]

WithPathPrefix(prefix, st) ==
    [st EXCEPT !.o.PathPrefixes = prefix]

WithoutCodeLevelMetrics(st) ==
    [st EXCEPT !.o.SuppressCLM = TRUE]

\* The option starts from a zero traceOptSet instead of the one it is handed.
DemandFromZero(st) ==
    [st EXCEPT !.o = [ZeroOptSet EXCEPT !.DemandCLM = TRUE]]

WithCodeLevelMetrics(st) ==
    [st EXCEPT !.o.DemandCLM = TRUE]

\* The override is assigned whatever the error.
SetAlways(r, o) == [o EXCEPT !.LocationOverride = r.loc]

\* if err == nil { o.LocationOverride = loc }
SetIfResolved(r, o) ==
    IF r.err = NilErr THEN [o EXCEPT !.LocationOverride = r.loc] ELSE o

WithFunctionLocation(function, st) ==
    LET r == FunctionLocation(function, st.heap)
    IN  [st EXCEPT !.o = SetIfResolved(r, st.o), !.heap = r.heap,
                   !.r = [loc |-> r.loc, err |-> r.err, ran |-> TRUE]]

\* The test of the override is dropped.
OverrideNotTested(o) == TRUE

\* if o.LocationOverride == nil
OverrideUnset(o) == o.LocationOverride = NilPtr

WithDefaultFunctionLocation(function, st) ==
    IF OverrideUnset(st.o) THEN WithFunctionLocation(function, st) ELSE st

\* newOptions *traceOptSet: [nil, v]
NilOptSetPtr == [nil |-> TRUE, v |-> ZeroOptSet]
OptSetPtr(v) == [nil |-> FALSE, v |-> v]

\* DemandCLM is merged into the current value instead of copied over it.
PreparedKeepsDemand(newOptions, st) ==
    IF ~newOptions.nil
    THEN LET n == newOptions.v
             o == st.o
         IN [st EXCEPT !.o =
              [LocationOverride |->
                   IF n.LocationOverride # NilPtr
                   THEN n.LocationOverride ELSE o.LocationOverride,
               SuppressCLM |-> n.SuppressCLM,
               DemandCLM |-> o.DemandCLM \/ n.DemandCLM,
               IgnoredPrefixes |->
                   IF ~n.IgnoredPrefixes.nil
                   THEN n.IgnoredPrefixes ELSE o.IgnoredPrefixes,
               PathPrefixes |->
                   IF ~n.PathPrefixes.nil
                   THEN n.PathPrefixes ELSE o.PathPrefixes]]
    ELSE st

withPreparedOptions(newOptions, st) ==
    IF ~newOptions.nil
    THEN LET n == newOptions.v
             o == st.o
         IN [st EXCEPT !.o =
              [LocationOverride |->
                   IF n.LocationOverride # NilPtr
                   THEN n.LocationOverride ELSE o.LocationOverride,
               SuppressCLM |-> n.SuppressCLM,
               DemandCLM |-> n.DemandCLM,
               IgnoredPrefixes |->
                   IF ~n.IgnoredPrefixes.nil
                   THEN n.IgnoredPrefixes ELSE o.IgnoredPrefixes,
               PathPrefixes |->
                   IF ~n.PathPrefixes.nil
                   THEN n.PathPrefixes ELSE o.PathPrefixes]]
    ELSE st

----------------------------------------------------------------------------
(* The goroutines that call the methods of one cache instance *)

Goroutines == 1..NumCallers

NoCall ==
    [kind |-> "none", function |-> NilFunction, skipLevels |-> <<>>,
     site |-> <<>>, override |-> NilPtr]
NoRet == [loc |-> NilPtr, err |-> NilErr, override |-> NilPtr]

CallersIdle ==
    /\ pc = [g \in Goroutines |-> "idle"]
    /\ call = [g \in Goroutines |-> NoCall]
    /\ ret = [g \in Goroutines |-> NoRet]
    /\ tmpErr = [g \in Goroutines |-> NilErr]
    /\ resolved = <<>>

----------------------------------------------------------------------------
(* reportCodeLevelMetrics: the parts of its body *)

ZeroFrame == MkFrame("", "", 0)

FrameReport ==
    MkFrame("github.com/newrelic/go-agent/v3/newrelic.reportCodeLevelMetrics",
            "/go/pkg/mod/github.com/newrelic/go-agent/v3/newrelic/code_level_metrics.go",
            405)

\* An entry that returns at once when SuppressCLM is set.
ReportEntrySuppressed(t) ==
    IF t.SuppressCLM THEN "done"
    ELSE IF t.LocationOverride # NilPtr THEN "override" ELSE "callers"

\* The position after the entry of the function, which tests the override
\* and nothing else.
ReportEntry(t) ==
    IF t.LocationOverride # NilPtr THEN "override" ELSE "callers"

\* if tOpts.IgnoredPrefixes == nil { ... }: the list the frames are tested
\* against (lines 411-420)
DefaultIgnoredPrefixes(ignored, cfg) ==
    IF ignored.nil
    THEN LET fromConfig == cfg.IgnoredPrefixes
             withLegacy == IF cfg.IgnoredPrefix # ""
                           THEN AppendSlice(fromConfig, cfg.IgnoredPrefix)
                           ELSE fromConfig
         IN  IF withLegacy.nil
             THEN AppendSlice(withLegacy, defaultAgentProjectRoot)
             ELSE withLegacy
    ELSE ignored

\* The closure with its two results exchanged.
NotIgnoredInverted(function, prefixes) ==
    \E i \in 1..Len(prefixes) : HasPrefix(function, prefixes[i])

\* The closure of the loop: false when the function name starts with one of
\* the prefixes, true otherwise.
NotIgnored(function, prefixes) ==
    \A i \in 1..Len(prefixes) : ~HasPrefix(function, prefixes[i])

\* if tOpts.PathPrefixes == nil { ... } (lines 443-449)
DefaultPathPrefixes(paths, cfg) ==
    IF paths.nil
    THEN IF cfg.PathPrefix # ""
         THEN AppendSlice(cfg.PathPrefixes, cfg.PathPrefix)
         ELSE cfg.PathPrefixes
    ELSE paths

\* A scan without the break: every prefix found cuts the path again.
RECURSIVE TrimPathNoBreak(_, _)
TrimPathNoBreak(path, prefixes) ==
    IF prefixes = <<>> THEN path
    ELSE LET pi == Index(path, Head(prefixes))
         IN  TrimPathNoBreak(IF pi >= 0 THEN SliceFrom(path, pi) ELSE path,
                             Tail(prefixes))

\* The scan of the path prefixes (lines 452-459): the path is cut at the
\* first prefix found in it, and the scan ends there.
RECURSIVE TrimPath(_, _)
TrimPath(path, prefixes) ==
    IF prefixes = <<>> THEN path
    ELSE LET pi == Index(path, Head(prefixes))
         IN  IF pi >= 0 THEN SliceFrom(path, pi)
             ELSE TrimPath(path, Tail(prefixes))

\* The name is split at its first "." instead of its last.
SplitAtFirst(name) ==
    LET ns == Index(name, ".")
    IN  IF ns >= 0
        THEN [namespace |-> SliceTo(name, ns), function |-> SliceFrom(name, ns + 1)]
        ELSE [namespace |-> "", function |-> name]

\* ns := strings.LastIndex(location.Function, "."), and the two parts
SplitFunction(name) ==
    LET ns == LastIndex(name, ".")
    IN  IF ns >= 0
        THEN [namespace |-> SliceTo(name, ns), function |-> SliceFrom(name, ns + 1)]
        ELSE [namespace |-> "", function |-> name]

\* setAttr(name, stringValue, otherValue); nil is written "<nil>", a line
\* number is an integer in other.
SetAttr(name, value, other) == [name |-> name, value |-> value, other |-> other]
NoOther == -1

\* Nothing is emitted for a location that was not found.
EmitIfLocated(loc) ==
    IF loc = ZeroLocation THEN <<>>
    ELSE << SetAttr("AttributeCodeLineno", "", loc.LineNo),
            SetAttr("AttributeCodeNamespace", SplitFunction(loc.Function).namespace,
                    NoOther),
            SetAttr("AttributeCodeFilepath", loc.FilePath, NoOther),
            SetAttr("AttributeCodeFunction", SplitFunction(loc.Function).function,
                    NoOther) >>

\* The four calls of setAttr (lines 470-473)
EmitAttributes(loc) ==
    LET parts == SplitFunction(loc.Function)
    IN  << SetAttr("AttributeCodeLineno", "", loc.LineNo),
           SetAttr("AttributeCodeNamespace", parts.namespace, NoOther),
           SetAttr("AttributeCodeFilepath", loc.FilePath, NoOther),
           SetAttr("AttributeCodeFunction", parts.function, NoOther) >>

ZeroConfig ==
    [IgnoredPrefixes |-> NilSlice, IgnoredPrefix |-> "",
     PathPrefixes |-> NilSlice, PathPrefix |-> ""]

\* The locals of a call of reportCodeLevelMetrics at its entry; it is report
\* number n of its goroutine.
BeginReport(in, n) ==
    [reportIn |-> in, tOpts |-> in.tOpts, rpc |-> ReportEntry(in.tOpts),
     location |-> ZeroLocation, frames |-> <<>>, frame |-> ZeroFrame,
     moreToRead |-> FALSE, attrs |-> <<>>, n |-> n]

\* A goroutine that has called reportCodeLevelMetrics not once.
NoReport ==
    [reportIn |-> [tOpts |-> ZeroOptSet, config |-> ZeroConfig, stack |-> <<>>],
     tOpts |-> ZeroOptSet, rpc |-> "done",
     location |-> ZeroLocation, frames |-> <<>>, frame |-> ZeroFrame,
     moreToRead |-> FALSE, attrs |-> <<>>, n |-> 0]

ReportIdle == rep = [g \in Goroutines |-> NoReport]

----------------------------------------------------------------------------
(* The options a call site can build.  An option value is a descriptor of  *)
(* the closure: the constructor that made it and the values it captured.   *)

MkOption(kind, loc, function, prefix, prep) ==
    [kind |-> kind, loc |-> loc, function |-> function, prefix |-> prefix,
     prep |-> prep]

OptCodeLocation(loc) ==
    MkOption("WithCodeLocation", loc, NilFunction, NilSlice, NilOptSetPtr)
OptIgnoredPrefix(prefix) ==
    MkOption("WithIgnoredPrefix", NilPtr, NilFunction, prefix, NilOptSetPtr)
OptPathPrefix(prefix) ==
    MkOption("WithPathPrefix", NilPtr, NilFunction, prefix, NilOptSetPtr)
OptWithoutCLM ==
    MkOption("WithoutCodeLevelMetrics", NilPtr, NilFunction, NilSlice, NilOptSetPtr)
OptWithCLM ==
    MkOption("WithCodeLevelMetrics", NilPtr, NilFunction, NilSlice, NilOptSetPtr)
OptFunctionLocation(function) ==
    MkOption("WithFunctionLocation", NilPtr, function, NilSlice, NilOptSetPtr)
OptCachedFunctionLocation(function) ==
    MkOption("CachedWithFunctionLocation", NilPtr, function, NilSlice, NilOptSetPtr)
OptDefaultFunctionLocation(function) ==
    MkOption("WithDefaultFunctionLocation", NilPtr, function, NilSlice, NilOptSetPtr)
OptCachedDefaultFunctionLocation(function) ==
    MkOption("CachedWithDefaultFunctionLocation", NilPtr, function, NilSlice,
             NilOptSetPtr)
OptPrepared(prep) ==
    MkOption("withPreparedOptions", NilPtr, NilFunction, NilSlice, prep)

\* The options whose closure calls a method of the cache instance.
CachedKinds == {"CachedWithFunctionLocation", "CachedWithDefaultFunctionLocation"}

\* o(&optSet): the call of a closure that uses no cache instance
ApplyOption(opt, st) ==
    CASE opt.kind = "WithCodeLocation" -> WithCodeLocation(opt.loc, st)
      [] opt.kind = "WithIgnoredPrefix" -> WithIgnoredPrefix(opt.prefix, st)
      [] opt.kind = "WithPathPrefix" -> WithPathPrefix(opt.prefix, st)
      [] opt.kind = "WithoutCodeLevelMetrics" -> WithoutCodeLevelMetrics(st)
      [] opt.kind = "WithCodeLevelMetrics" -> WithCodeLevelMetrics(st)
      [] opt.kind = "WithFunctionLocation" ->
             WithFunctionLocation(opt.function, st)
      [] opt.kind = "WithDefaultFunctionLocation" ->
             WithDefaultFunctionLocation(opt.function, st)
      [] opt.kind = "withPreparedOptions" -> withPreparedOptions(opt.prep, st)

----------------------------------------------------------------------------
(* Inputs of the option fold *)

\* Locations the call site made before it built its options.
ExplicitLocation == MkLocation(7, "main.explicit", "/home/user/project/main.go")
PreparedLocation == MkLocation(9, "main.prepared", "/srv/app/prepared.go")
\* A location whose Function the call site wrote without a package.
UnqualifiedLocation == MkLocation(3, "Handler", "/home/user/project/src/pkg/file.go")
InitialHeap == <<ExplicitLocation, PreparedLocation, UnqualifiedLocation>>
ExplicitPtr == 1
PreparedPtr == 2
UnqualifiedPtr == 3

PreparedSuppressing ==
    [LocationOverride |-> NilPtr, SuppressCLM |-> TRUE, DemandCLM |-> FALSE,
     IgnoredPrefixes |-> NilSlice, PathPrefixes |-> NilSlice]
PreparedFull ==
    [LocationOverride |-> PreparedPtr, SuppressCLM |-> FALSE, DemandCLM |-> FALSE,
     IgnoredPrefixes |-> MkSlice(<<"lib/">>), PathPrefixes |-> MkSlice(<<>>)]

PreparedDemanding ==
    [LocationOverride |-> NilPtr, SuppressCLM |-> FALSE, DemandCLM |-> TRUE,
     IgnoredPrefixes |-> NilSlice, PathPrefixes |-> NilSlice]

\* The options that use no cache instance.
OptionPool ==
    { OptCodeLocation(ExplicitPtr),
      OptIgnoredPrefix(MkSlice(<<"mypkg/">>)),
      OptPathPrefix(MkSlice(<<"pkg/">>)),
      OptWithoutCLM,
      OptWithCLM,
      OptFunctionLocation(HandlerFunc),
      OptFunctionLocation(NilFunction),
      OptDefaultFunctionLocation(OtherFunc),
      OptDefaultFunctionLocation(IntValue),
      OptPrepared(NilOptSetPtr),
      OptPrepared(OptSetPtr(PreparedSuppressing)),
      OptPrepared(OptSetPtr(PreparedFull)),
      OptPrepared(OptSetPtr(PreparedDemanding)) }

OptionLists == UNION { [1..n -> OptionPool] : n \in 0..MaxOpts }

----------------------------------------------------------------------------
(* resolveCLMTraceOptions called with options that use no cache instance:  *)
(* one action per iteration of its loop.  Goroutine Folder runs it.        *)

Folder == 1

\* A loop that never leaves early.
LoopNeverBreaks(o) == FALSE

\* if optSet.SuppressCLM { break }
LoopBreaks(o) == o.SuppressCLM

InitOptions ==
    /\ heap = InitialHeap
    /\ cache = FreshCache
    /\ onceM = 0
    /\ options \in OptionLists
    /\ optIdx = 1
    /\ optSet = ZeroOptSet
    /\ optPc = "loop"
    /\ trail = <<>>
    /\ results = <<>>
    /\ CallersIdle
    /\ ReportIdle

\* o(&optSet) for a closure that uses no cache instance, then the test of
\* SuppressCLM.  The closure reads and writes the optSet of this call and
\* memory it allocates itself.
OptionCall ==
    /\ optPc = "loop"
    /\ optIdx <= Len(options)
    /\ options[optIdx].kind \notin CachedKinds
    /\ pc[Folder] = "idle"
    /\ LET st == ApplyOption(options[optIdx],
                             [o |-> optSet, heap |-> heap, r |-> NoResolution])
       IN  /\ optSet' = st.o
           /\ heap' = st.heap
           /\ trail' = Append(trail,
                  [idx |-> optIdx, before |-> optSet, after |-> st.o, r |-> st.r])
           /\ IF LoopBreaks(st.o)
              THEN optPc' = "done" /\ optIdx' = optIdx
              ELSE optPc' = "loop" /\ optIdx' = optIdx + 1
    /\ UNCHANGED <<cache, options, onceM, results, callerVars,
                   reportVars>>

\* the range is exhausted: return &optSet
OptionsReturn ==
    /\ optPc = "loop"
    /\ optIdx > Len(options)
    /\ pc[Folder] = "idle"
    /\ optPc' = "done"
    /\ UNCHANGED <<heap, cache, onceM, options, optIdx, optSet, trail, results,
                   callerVars,
                   reportVars>>

NextOptions == OptionCall \/ OptionsReturn

SpecOptions == InitOptions /\ [][NextOptions]_vars

----------------------------------------------------------------------------
(* The methods of one CachedCodeLocation called by concurrent goroutines.  *)
(* once.Do(f): if done is 0, lock m; if done is still 0 run f and then     *)
(* store 1 in done; unlock m.  Each access to shared memory is a step.     *)

\* The calls a goroutine can make on the cache instance.
CachedCalls ==
    { [kind |-> "FunctionLocation", function |-> f, skipLevels |-> <<>>,
       site |-> <<>>, override |-> NilPtr] :
          f \in {HandlerFunc, OtherFunc, NilFunction} }
    \cup { [kind |-> "ThisCodeLocation", function |-> NilFunction,
            skipLevels |-> k, site |-> site, override |-> NilPtr] :
          k \in {<<>>, <<1>>}, site \in CallSites }
    \cup { [kind |-> "WithFunctionLocation", function |-> f, skipLevels |-> <<>>,
            site |-> <<>>, override |-> NilPtr] : f \in {HandlerFunc, IntValue} }
    \cup { [kind |-> "WithDefaultFunctionLocation", function |-> OtherFunc,
            skipLevels |-> <<>>, site |-> <<>>, override |-> o] :
          o \in {NilPtr, ExplicitPtr} }
    \cup { [kind |-> "WithThisCodeLocation", function |-> NilFunction,
            skipLevels |-> <<1>>, site |-> site, override |-> NilPtr] :
          site \in CallSites }

\* Every method goes to c.once.Do, whatever the override.
ReachesOnceAlways(cl) == TRUE

\* The method reaches c.once.Do: WithDefaultFunctionLocation only when the
\* override of its traceOptSet is unset.
ReachesOnce(cl) ==
    cl.kind = "WithDefaultFunctionLocation" =>
        OverrideUnset([LocationOverride |-> cl.override])

\* The function handed to once.Do, run on heap h.
OnceFunc(cl, h) ==
    CASE cl.kind = "ThisCodeLocation" ->
             OnceFuncThisCodeLocation(cl.skipLevels, cl.site, h)
      [] cl.kind = "WithThisCodeLocation" ->
             OnceFuncWithThisCodeLocation(cl.site, h)
      [] OTHER -> OnceFuncFunctionLocation(cl.function, h)

\* The test of done that doSlow omits.
OnceAlwaysRuns(done) == TRUE

\* if o.done.Load() == 0
OnceMustRun(done) == done = 0

\* The error is dropped from the values returned.
ReturnedNoErr(c) == NilErr

\* return c.Location, c.Err
ReturnedErr(c) == c.Err

InitCache ==
    /\ heap = InitialHeap
    /\ cache = FreshCache
    /\ onceM = 0
    /\ options = <<>>
    /\ optIdx = 1
    /\ optSet = ZeroOptSet
    /\ optPc = "done"
    /\ trail = <<>>
    /\ results = <<>>
    /\ CallersIdle
    /\ ReportIdle

\* A goroutine calls a method of the cache instance.
Invoke(g) ==
    /\ pc[g] = "idle"
    /\ \E cl \in CachedCalls :
         /\ call' = [call EXCEPT ![g] = cl]
         /\ pc' = [pc EXCEPT ![g] = IF ReachesOnce(cl) THEN "once" ELSE "skipped"]
    /\ UNCHANGED <<heap, cache, onceM, optionVars, results, ret, tmpErr, resolved,
                   reportVars>>

\* Do: the first load of done
OnceFast(g) ==
    /\ pc[g] = "once"
    /\ pc' = [pc EXCEPT ![g] = IF OnceMustRun(cache.done) THEN "lock" ELSE "read"]
    /\ UNCHANGED <<heap, cache, onceM, optionVars, results, call, ret, tmpErr,
                   resolved,
                   reportVars>>

\* doSlow: o.m.Lock()
OnceLock(g) ==
    /\ pc[g] = "lock"
    /\ onceM = 0
    /\ onceM' = g
    /\ pc' = [pc EXCEPT ![g] = "check"]
    /\ UNCHANGED <<heap, cache, optionVars, results, call, ret, tmpErr, resolved,
                   reportVars>>

\* doSlow: the second load of done, under the mutex
OnceCheck(g) ==
    /\ pc[g] = "check"
    /\ pc' = [pc EXCEPT ![g] = IF OnceMustRun(cache.done) THEN "run" ELSE "unlock"]
    /\ UNCHANGED <<heap, cache, onceM, optionVars, results, call, ret, tmpErr,
                   resolved,
                   reportVars>>

\* f(): the resolution runs and c.Location is assigned
RunResolution(g) ==
    /\ pc[g] = "run"
    /\ LET r == OnceFunc(call[g], heap)
       IN  /\ heap' = r.heap
           /\ cache' = [cache EXCEPT !.Location = r.loc]
           /\ tmpErr' = [tmpErr EXCEPT ![g] = r.err]
           /\ resolved' = Append(resolved,
                  [loc |-> r.loc, err |-> r.err, call |-> call[g]])
    /\ pc' = [pc EXCEPT ![g] = "storeErr"]
    /\ UNCHANGED <<onceM, optionVars, results, call, ret,
                   reportVars>>

\* The error of the resolution is dropped: c.Err is left nil.
StoreErrDropped(g) ==
    /\ pc[g] = "storeErr"
    /\ cache' = [cache EXCEPT !.Err = NilErr]
    /\ tmpErr' = [tmpErr EXCEPT ![g] = NilErr]
    /\ pc' = [pc EXCEPT ![g] = "setDone"]
    /\ UNCHANGED <<heap, onceM, optionVars, results, call, ret, resolved,
                   reportVars>>

\* f(): c.Err is assigned
StoreErr(g) ==
    /\ pc[g] = "storeErr"
    /\ cache' = [cache EXCEPT !.Err = tmpErr[g]]
    /\ tmpErr' = [tmpErr EXCEPT ![g] = NilErr]
    /\ pc' = [pc EXCEPT ![g] = "setDone"]
    /\ UNCHANGED <<heap, onceM, optionVars, results, call, ret, resolved,
                   reportVars>>

\* doSlow: the deferred o.done.Store(1)
OnceSetDone(g) ==
    /\ pc[g] = "setDone"
    /\ cache' = [cache EXCEPT !.done = 1]
    /\ pc' = [pc EXCEPT ![g] = "unlock"]
    /\ UNCHANGED <<heap, onceM, optionVars, results, call, ret, tmpErr, resolved,
                   reportVars>>

\* doSlow returns with the mutex still held.
OnceUnlockMissing(g) ==
    /\ pc[g] = "unlock"
    /\ onceM = g
    /\ pc' = [pc EXCEPT ![g] = "read"]
    /\ UNCHANGED <<heap, cache, onceM, optionVars, results, call, ret, tmpErr,
                   resolved,
                   reportVars>>

\* doSlow: the deferred o.m.Unlock()
OnceUnlock(g) ==
    /\ pc[g] = "unlock"
    /\ onceM = g
    /\ onceM' = 0
    /\ pc' = [pc EXCEPT ![g] = "read"]
    /\ UNCHANGED <<heap, cache, optionVars, results, call, ret, tmpErr, resolved,
                   reportVars>>

\* return c.Location, c.Err (ThisCodeLocation returns c.Location alone, and
\* WithThisCodeLocation hands it to WithCodeLocation to build the option it
\* returns); an option closure then assigns the override of its traceOptSet
Return(g) ==
    /\ pc[g] = "read"
    /\ LET r == [loc |-> cache.Location, err |-> ReturnedErr(cache)]
           o == [LocationOverride |-> call[g].override]
       IN  ret' = [ret EXCEPT ![g] =
                [loc |-> r.loc, err |-> r.err,
                 override |-> IF call[g].kind \in {"WithFunctionLocation",
                                                   "WithDefaultFunctionLocation"}
                              THEN SetIfResolved(r, o).LocationOverride
                              ELSE call[g].override]]
    /\ pc' = [pc EXCEPT ![g] = "returned"]
    /\ UNCHANGED <<heap, cache, onceM, optionVars, results, call, tmpErr, resolved,
                   reportVars>>

\* The caller goes on; it may call again.
Resume(g) ==
    /\ pc[g] \in {"returned", "skipped"}
    /\ pc' = [pc EXCEPT ![g] = "idle"]
    /\ call' = [call EXCEPT ![g] = NoCall]
    /\ ret' = [ret EXCEPT ![g] = NoRet]
    /\ UNCHANGED <<heap, cache, onceM, optionVars, results, tmpErr, resolved,
                   reportVars>>

NextCache ==
    \E g \in Goroutines :
        \/ Invoke(g)
        \/ OnceFast(g)
        \/ OnceLock(g)
        \/ OnceCheck(g)
        \/ RunResolution(g)
        \/ StoreErr(g)
        \/ OnceSetDone(g)
        \/ OnceUnlock(g)
        \/ Return(g)
        \/ Resume(g)

SpecCache == InitCache /\ [][NextCache]_vars

\* A step of goroutine g inside a method of the cache instance.
MethodStep(g) ==
    \/ OnceFast(g)
    \/ OnceLock(g)
    \/ OnceCheck(g)
    \/ RunResolution(g)
    \/ StoreErr(g)
    \/ OnceSetDone(g)
    \/ OnceUnlock(g)
    \/ Return(g)

\* The resolution calls followed under fair scheduling: one that resolves, one
\* that fails, and one of the caller's own location.
WaitingCalls ==
    { cl \in CachedCalls :
        \/ cl.kind = "FunctionLocation" /\ cl.function \in {HandlerFunc, NilFunction}
        \/ cl.kind = "ThisCodeLocation" /\ cl.skipLevels = <<>>
             /\ cl.site = <<FrameApp>> }

\* A goroutine calls a resolution method of the cache instance.
InvokeResolution(g) ==
    /\ pc[g] = "idle"
    /\ \E cl \in WaitingCalls :
         /\ call' = [call EXCEPT ![g] = cl]
         /\ pc' = [pc EXCEPT ![g] = "once"]
    /\ UNCHANGED <<heap, cache, onceM, optionVars, results, ret, tmpErr, resolved,
                   reportVars>>

NextCacheFair ==
    \E g \in Goroutines :
        \/ InvokeResolution(g)
        \/ MethodStep(g)
        \/ Resume(g)

\* The scheduler runs every goroutine that can run, sync.Mutex hands the
\* mutex to a goroutine that waits for it, and the functions handed to once.Do
\* have no loop: a goroutine inside a method takes its next step when that
\* step stays possible.  Whether a goroutine calls a method at all is left
\* open.
SpecCacheFair ==
    /\ InitCache
    /\ [][NextCacheFair]_vars
    /\ \A g \in Goroutines : WF_vars(MethodStep(g))

----------------------------------------------------------------------------
(* resolveCLMTraceOptions called with options that share one cache         *)
(* instance, while another goroutine calls a method of the same instance.  *)
(* The closure of a cached option calls c.once.Do: goroutine Folder takes  *)
(* the steps of that call one by one, and the steps of goroutine           *)
(* Interferer fall between them in any order.                              *)

Interferer == 2

\* The options of the lists that are folded.
FoldPool ==
    { OptCodeLocation(ExplicitPtr),
      OptWithoutCLM,
      OptFunctionLocation(NilFunction),
      OptDefaultFunctionLocation(OtherFunc),
      OptCachedFunctionLocation(HandlerFunc),
      OptCachedFunctionLocation(NilFuncValue),
      OptCachedDefaultFunctionLocation(OtherFunc),
      OptCachedDefaultFunctionLocation(NilFunction) }

FoldLists == UNION { [1..n -> FoldPool] : n \in 0..MaxOpts }

\* The calls the other goroutine makes on the cache instance.
InterferingCalls ==
    { cl \in CachedCalls :
        cl.kind = "FunctionLocation" /\ cl.function \in {OtherFunc, NilFunction} }

\* The method call the closure of a cached option makes when it is handed o.
CachedOptionCall(opt, o) ==
    [kind |-> IF opt.kind = "CachedWithFunctionLocation"
              THEN "WithFunctionLocation" ELSE "WithDefaultFunctionLocation",
     function |-> opt.function, skipLevels |-> <<>>, site |-> <<>>,
     override |-> o.LocationOverride]

InitFold ==
    /\ heap = InitialHeap
    /\ cache = FreshCache
    /\ onceM = 0
    /\ options \in FoldLists
    /\ optIdx = 1
    /\ optSet = ZeroOptSet
    /\ optPc = "loop"
    /\ trail = <<>>
    /\ results = <<>>
    /\ CallersIdle
    /\ ReportIdle

\* o(&optSet) for the closure of a cached option: the closure is entered.
\* c.WithDefaultFunctionLocation tests the override before it reaches once.Do.
OptionEnter ==
    /\ optPc = "loop"
    /\ optIdx <= Len(options)
    /\ options[optIdx].kind \in CachedKinds
    /\ pc[Folder] = "idle"
    /\ LET cl == CachedOptionCall(options[optIdx], optSet)
       IN  /\ call' = [call EXCEPT ![Folder] = cl]
           /\ pc' = [pc EXCEPT ![Folder] =
                        IF ReachesOnce(cl) THEN "once" ELSE "skipped"]
    /\ UNCHANGED <<heap, cache, onceM, optionVars, results, ret, tmpErr, resolved,
                   reportVars>>

\* The closure of a cached option returns, with LocationOverride assigned when
\* the values it read from the cache hold no error; then the test of
\* SuppressCLM.
OptionLeave ==
    /\ optPc = "loop"
    /\ pc[Folder] \in {"returned", "skipped"}
    /\ LET ran == pc[Folder] = "returned"
           after == IF ran
                    THEN [optSet EXCEPT !.LocationOverride = ret[Folder].override]
                    ELSE optSet
           r == IF ran
                THEN [loc |-> ret[Folder].loc, err |-> ret[Folder].err, ran |-> TRUE]
                ELSE NoResolution
       IN  /\ optSet' = after
           /\ trail' = Append(trail,
                  [idx |-> optIdx, before |-> optSet, after |-> after, r |-> r])
           /\ IF LoopBreaks(after)
              THEN optPc' = "done" /\ optIdx' = optIdx
              ELSE optPc' = "loop" /\ optIdx' = optIdx + 1
    /\ pc' = [pc EXCEPT ![Folder] = "idle"]
    /\ call' = [call EXCEPT ![Folder] = NoCall]
    /\ ret' = [ret EXCEPT ![Folder] = NoRet]
    /\ UNCHANGED <<heap, cache, onceM, options, results, tmpErr, resolved,
                   reportVars>>

\* The other goroutine calls c.FunctionLocation.
InvokeDuringFold(g) ==
    /\ pc[g] = "idle"
    /\ \E cl \in InterferingCalls :
         /\ call' = [call EXCEPT ![g] = cl]
         /\ pc' = [pc EXCEPT ![g] = "once"]
    /\ UNCHANGED <<heap, cache, onceM, optionVars, results, ret, tmpErr, resolved,
                   reportVars>>

NextFold ==
    \/ OptionCall
    \/ OptionEnter
    \/ MethodStep(Folder)
    \/ OptionLeave
    \/ OptionsReturn
    \/ InvokeDuringFold(Interferer)
    \/ MethodStep(Interferer)
    \/ Resume(Interferer)

SpecFold == InitFold /\ [][NextFold]_vars

----------------------------------------------------------------------------
(* The stand-alone resolvers, called directly by the program *)

InitResolve ==
    /\ heap = <<>>
    /\ cache = FreshCache
    /\ onceM = 0
    /\ options = <<>>
    /\ optIdx = 1
    /\ optSet = ZeroOptSet
    /\ optPc = "done"
    /\ trail = <<>>
    /\ results = <<>>
    /\ CallersIdle
    /\ ReportIdle

\* loc, err := FunctionLocation(function)
CallFunctionLocation ==
    /\ Len(results) < MaxResolves
    /\ \E function \in FunctionValues :
         LET r == FunctionLocation(function, heap)
         IN  /\ heap' = r.heap
             /\ results' = Append(results,
                    [op |-> "FunctionLocation", function |-> function,
                     skipLevels |-> <<>>, site |-> <<>>,
                     loc |-> r.loc, err |-> r.err])
    /\ UNCHANGED <<cache, onceM, optionVars, callerVars,
                   reportVars>>

\* loc := ThisCodeLocation(skipLevels...)
CallThisCodeLocation ==
    /\ Len(results) < MaxResolves
    /\ \E skipLevels \in SkipArgs, site \in CallSites :
         LET r == ThisCodeLocation(skipLevels, site, heap)
         IN  /\ heap' = r.heap
             /\ results' = Append(results,
                    [op |-> "ThisCodeLocation", function |-> NilFunction,
                     skipLevels |-> skipLevels, site |-> site,
                     loc |-> r.loc, err |-> NilErr])
    /\ UNCHANGED <<cache, onceM, optionVars, callerVars,
                   reportVars>>

NextResolve ==
    \/ CallFunctionLocation
    \/ CallThisCodeLocation

SpecResolve == InitResolve /\ [][NextResolve]_vars

----------------------------------------------------------------------------
(* reportCodeLevelMetrics(tOpts, run, setAttr), called with any settings,  *)
(* configuration and stack.                                                *)

ReportIgnoredChoices == { NilSlice, MkSlice(<<>>), MkSlice(<<"mypkg/">>) }
ReportPathChoices ==
    { NilSlice, MkSlice(<<>>), MkSlice(<<"src/", "pkg/">>),
      MkSlice(<<"pkg/", "src/">>) }

ReportSettings ==
    [LocationOverride : {NilPtr, ExplicitPtr, UnqualifiedPtr}, SuppressCLM : BOOLEAN,
     DemandCLM : BOOLEAN, IgnoredPrefixes : ReportIgnoredChoices,
     PathPrefixes : ReportPathChoices]

ReportConfigs ==
    [IgnoredPrefixes : {NilSlice, MkSlice(<<>>), MkSlice(<<"lib/">>)},
     IgnoredPrefix : {"", "mypkg/"},
     PathPrefixes : {NilSlice, MkSlice(<<"pkg/">>)},
     PathPrefix : {"", "project/"}]

\* The stacks of the callers of reportCodeLevelMetrics, innermost first.
ReportStacks ==
    UNION { [1..n -> {FrameApp, FrameLib, FrameAgent}] : n \in 0..MaxDepth }

\* The cache instance of the program: the explicit location is the one a
\* c.WithThisCodeLocation option handed over, so the instance holds it.
ReportCache(t) ==
    IF t.LocationOverride = ExplicitPtr
    THEN [Location |-> ExplicitPtr, Err |-> NilErr, done |-> 1]
    ELSE FreshCache

\* The goroutine whose report is followed alone.
FirstReporter == 1

InitReport ==
    /\ heap = InitialHeap
    /\ onceM = 0
    /\ options = <<>>
    /\ optIdx = 1
    /\ optSet = ZeroOptSet
    /\ optPc = "done"
    /\ trail = <<>>
    /\ results = <<>>
    /\ CallersIdle
    /\ \E in \in [tOpts : ReportSettings, config : ReportConfigs,
                   stack : ReportStacks] :
         /\ cache = ReportCache(in.tOpts)
         /\ rep = [g \in Goroutines |->
                     IF g = FirstReporter THEN BeginReport(in, 1) ELSE NoReport]

\* location = *tOpts.LocationOverride
ReportOverride(g) ==
    /\ rep[g].rpc = "override"
    /\ rep' = [rep EXCEPT ![g].location = heap[rep[g].tOpts.LocationOverride],
                          ![g].rpc = "paths"]
    /\ UNCHANGED <<heap, cache, onceM, optionVars, results, callerVars>>

\* depth := runtime.Callers(2, pcs); with depth > 0 the iterator is made and
\* the ignored prefixes are settled
ReportCallers(g) ==
    /\ rep[g].rpc = "callers"
    /\ LET pcs == Callers(2, <<FrameCallers, FrameReport>> \o rep[g].reportIn.stack)
       IN  IF Len(pcs) > 0
           THEN rep' = [rep EXCEPT
                    ![g].frames = pcs,
                    ![g].moreToRead = TRUE,
                    ![g].tOpts.IgnoredPrefixes =
                        DefaultIgnoredPrefixes(rep[g].tOpts.IgnoredPrefixes,
                                               rep[g].reportIn.config),
                    ![g].rpc = "walk"]
           ELSE rep' = [rep EXCEPT ![g].rpc = "paths"]
    /\ UNCHANGED <<heap, cache, onceM, optionVars, results, callerVars>>

\* One iteration of the loop: frame, moreToRead = frames.Next(), then the
\* test of the prefixes; the loop ends at a frame that is not ignored or
\* when there is no more to read.
ReportNextFrame(g) ==
    /\ rep[g].rpc = "walk"
    /\ rep[g].moreToRead
    /\ LET frames == rep[g].frames
       IN  rep' = [rep EXCEPT
               ![g].frame = Head(frames),
               ![g].frames = Tail(frames),
               ![g].moreToRead = (Tail(frames) # <<>>),
               ![g].rpc = IF NotIgnored(Head(frames).Function,
                                        rep[g].tOpts.IgnoredPrefixes.elems)
                             \/ Tail(frames) = <<>>
                          THEN "located" ELSE "walk"]
    /\ UNCHANGED <<heap, cache, onceM, optionVars, results, callerVars>>

\* location.FilePath = frame.File, and the other two fields
ReportSetLocation(g) ==
    /\ rep[g].rpc = "located"
    /\ rep' = [rep EXCEPT
            ![g].location = MkLocation(rep[g].frame.Line, rep[g].frame.Function,
                                       rep[g].frame.File),
            ![g].rpc = "paths"]
    /\ UNCHANGED <<heap, cache, onceM, optionVars, results, callerVars>>

\* The path is trimmed through the pointer of the override as well.
ReportTrimPathInPlace(g) ==
    /\ rep[g].rpc = "paths"
    /\ LET paths == DefaultPathPrefixes(rep[g].tOpts.PathPrefixes,
                                        rep[g].reportIn.config)
           trimmed == TrimPath(rep[g].location.FilePath, paths.elems)
           ptr == rep[g].tOpts.LocationOverride
       IN  /\ rep' = [rep EXCEPT ![g].tOpts.PathPrefixes = paths,
                                 ![g].location.FilePath = trimmed,
                                 ![g].rpc = "emit"]
           /\ heap' = IF ptr # NilPtr
                      THEN [heap EXCEPT ![ptr].FilePath = trimmed]
                      ELSE heap
    /\ UNCHANGED <<cache, onceM, optionVars, results, callerVars>>

\* The path prefixes are settled and the file path is trimmed.
ReportTrimPath(g) ==
    /\ rep[g].rpc = "paths"
    /\ LET paths == DefaultPathPrefixes(rep[g].tOpts.PathPrefixes,
                                        rep[g].reportIn.config)
       IN  rep' = [rep EXCEPT
               ![g].tOpts.PathPrefixes = paths,
               ![g].location.FilePath =
                   TrimPath(rep[g].location.FilePath, paths.elems),
               ![g].rpc = "emit"]
    /\ UNCHANGED <<heap, cache, onceM, optionVars, results, callerVars>>

\* The function name is split and setAttr is called four times.
ReportEmit(g) ==
    /\ rep[g].rpc = "emit"
    /\ rep' = [rep EXCEPT
            ![g].attrs = rep[g].attrs \o EmitAttributes(rep[g].location),
            ![g].rpc = "done"]
    /\ UNCHANGED <<heap, cache, onceM, optionVars, results, callerVars>>

\* A step of goroutine g inside reportCodeLevelMetrics.
ReportStep(g) ==
    \/ ReportOverride(g)
    \/ ReportCallers(g)
    \/ ReportNextFrame(g)
    \/ ReportSetLocation(g)
    \/ ReportTrimPath(g)
    \/ ReportEmit(g)

NextReport == ReportStep(FirstReporter)

SpecReport == InitReport /\ [][NextReport]_vars

----------------------------------------------------------------------------
(* Goroutines that share one cache instance and report the location it     *)
(* holds.  Each of them, again and again, calls the closure of a cached    *)
(* function-location option on a zero traceOptSet, as the fold of its      *)
(* options does, and hands the traceOptSet to reportCodeLevelMetrics.  The *)
(* steps of the goroutines fall in any order.                              *)

SecondReporter == 2

Reporters == {FirstReporter, SecondReporter}

\* The number of reports a goroutine makes at most.
MaxReports == 3

\* The closure calls the goroutines make on the cache instance.
SharedCalls ==
    { cl \in CachedCalls :
        /\ cl.kind \in {"WithFunctionLocation", "WithDefaultFunctionLocation"}
        /\ cl.override = NilPtr }

\* run.Config of the application.
SharedConfig == [ZeroConfig EXCEPT !.PathPrefix = "project/"]

\* The stack of the callers of reportCodeLevelMetrics.
SharedStack == <<FrameAgent, FrameApp>>

\* The path prefixes a WithPathPrefix option left in the traceOptSet.
SharedPathChoices == { NilSlice, MkSlice(<<"pkg/">>) }

InitShared ==
    /\ heap = InitialHeap
    /\ cache = FreshCache
    /\ onceM = 0
    /\ options = <<>>
    /\ optIdx = 1
    /\ optSet = ZeroOptSet
    /\ optPc = "done"
    /\ trail = <<>>
    /\ results = <<>>
    /\ CallersIdle
    /\ ReportIdle

\* o(&optSet): the closure of a cached function-location option is entered.
InvokeShared(g) ==
    /\ pc[g] = "idle"
    /\ rep[g].rpc = "done"
    /\ rep[g].n < MaxReports
    /\ \E cl \in SharedCalls :
         /\ call' = [call EXCEPT ![g] = cl]
         /\ pc' = [pc EXCEPT ![g] = "once"]
    /\ UNCHANGED <<heap, cache, onceM, optionVars, results, ret, tmpErr, resolved,
                   reportVars>>

\* The closure has returned: reportCodeLevelMetrics is called with the
\* traceOptSet, whose LocationOverride is what the closure left there.
StartReport(g) ==
    /\ pc[g] = "returned"
    /\ \E paths \in SharedPathChoices :
         LET t == [ZeroOptSet EXCEPT !.LocationOverride = ret[g].override,
                                     !.PathPrefixes = paths]
             in == [tOpts |-> t, config |-> SharedConfig, stack |-> SharedStack]
         IN  rep' = [rep EXCEPT ![g] = BeginReport(in, rep[g].n + 1)]
    /\ pc' = [pc EXCEPT ![g] = "idle"]
    /\ call' = [call EXCEPT ![g] = NoCall]
    /\ ret' = [ret EXCEPT ![g] = NoRet]
    /\ UNCHANGED <<heap, cache, onceM, optionVars, results, tmpErr, resolved>>

NextShared ==
    \E g \in Reporters :
        \/ InvokeShared(g)
        \/ MethodStep(g)
        \/ StartReport(g)
        \/ ReportStep(g)

SpecShared == InitShared /\ [][NextShared]_vars

----------------------------------------------------------------------------
(* Properties of reportCodeLevelMetrics *)

\* The locals of the report that is followed alone.
reportIn == rep[FirstReporter].reportIn
tOpts == rep[FirstReporter].tOpts
rpc == rep[FirstReporter].rpc
location == rep[FirstReporter].location
frames == rep[FirstReporter].frames
frame == rep[FirstReporter].frame
moreToRead == rep[FirstReporter].moreToRead
attrs == rep[FirstReporter].attrs

\* The frames runtime.Callers(2, pcs) hands to the report.
Captured == Callers(2, <<FrameCallers, FrameReport>> \o reportIn.stack)

\* The positions in captured whose function starts with no prefix of ign.
Unignored(captured, ign) ==
    { i \in 1..Len(captured) :
        \A j \in 1..Len(ign) : ~HasPrefix(captured[i].Function, ign[j]) }

\* The position of the frame to report: the first that is not ignored, the
\* last one when all are ignored.
Selected(captured, ign) ==
    IF Unignored(captured, ign) = {} THEN Len(captured)
    ELSE SetMin(Unignored(captured, ign))

\* The location a report of settings t resolves, before the path is trimmed.
ResolvedLocation(t) ==
    IF t.LocationOverride # NilPtr THEN heap[t.LocationOverride]
    ELSE IF Captured = <<>> THEN ZeroLocation
    ELSE LET ign == DefaultIgnoredPrefixes(t.IgnoredPrefixes, reportIn.config).elems
             f == Captured[Selected(Captured, ign)]
         IN  MkLocation(f.Line, f.Function, f.File)

\* The calls of setAttr a report of settings t makes.
ExpectedAttrs(t) ==
    LET loc == ResolvedLocation(t)
        paths == DefaultPathPrefixes(t.PathPrefixes, reportIn.config).elems
    IN  EmitAttributes([loc EXCEPT !.FilePath = TrimPath(loc.FilePath, paths)])

\* C4 as claimed: a report called with SuppressCLM set never calls setAttr.
C4_SuppressedReportEmitsNothing ==
    reportIn.tOpts.SuppressCLM => attrs = <<>>

\* C4 as amended: reportCodeLevelMetrics does not examine SuppressCLM; called
\* with it set, it makes the four calls of setAttr it makes for the same
\* settings with it unset.
C4_SuppressionIsNotExamined ==
    (rpc = "done" /\ reportIn.tOpts.SuppressCLM) =>
        /\ Len(attrs) = 4
        /\ attrs = ExpectedAttrs([reportIn.tOpts EXCEPT !.SuppressCLM = FALSE])

\* A report with SuppressCLM set has emitted the location of a frame.
C4_Witness ==
    /\ rpc = "done"
    /\ reportIn.tOpts.SuppressCLM
    /\ reportIn.tOpts.LocationOverride = NilPtr
    /\ Len(attrs) = 4
    /\ attrs[4].value = "Handler"

\* C5: without an override the report takes the first captured frame,
\* innermost first, whose function starts with no prefix of the ignore list in
\* effect, and the last captured frame when every one is ignored.
C5_FirstFrameNotIgnored ==
    (reportIn.tOpts.LocationOverride = NilPtr /\ Captured # <<>>
       /\ rpc \in {"paths", "emit", "done"}) =>
        LET sel == Captured[Selected(Captured, tOpts.IgnoredPrefixes.elems)]
        IN  /\ frame = sel
            /\ location.Function = sel.Function
            /\ location.LineNo = sel.Line
            /\ rpc = "paths" => location.FilePath = sel.File

\* Every one of three frames is ignored and the outermost one is reported.
C5_Witness ==
    /\ rpc = "done"
    /\ reportIn.tOpts.LocationOverride = NilPtr
    /\ Len(Captured) = 3
    /\ Unignored(Captured, tOpts.IgnoredPrefixes.elems) = {}
    /\ Captured[1] # Captured[3]
    /\ attrs[4].value = SplitFunction(Captured[3].Function).function

\* The step of the report's position can be taken.
ReportCanGoOn ==
    /\ rpc \in {"override", "callers", "walk", "located", "paths", "emit"}
    /\ rpc = "override" => tOpts.LocationOverride \in 1..Len(heap)
    /\ rpc = "walk" => moreToRead /\ frames # <<>>

\* C6: a report that has completed has called setAttr exactly four times,
\* for the four attribute names in their order; before that it has called it
\* not at all, and it can always go on to completion.
C6_FourAttributes ==
    /\ rpc = "done" =>
         /\ Len(attrs) = 4
         /\ attrs[1].name = "AttributeCodeLineno"
         /\ attrs[2].name = "AttributeCodeNamespace"
         /\ attrs[3].name = "AttributeCodeFilepath"
         /\ attrs[4].name = "AttributeCodeFunction"
    /\ rpc # "done" => attrs = <<>> /\ ReportCanGoOn

\* A report with no override and an empty stack has emitted four attributes.
C6_Witness ==
    /\ rpc = "done"
    /\ reportIn.tOpts.LocationOverride = NilPtr
    /\ reportIn.stack = <<>>
    /\ Len(attrs) = 4
    /\ attrs[1].other = 0
    /\ attrs[3].value = ""

\* The file path of the location before it is trimmed.
ResolvedPath ==
    IF reportIn.tOpts.LocationOverride # NilPtr
    THEN heap[reportIn.tOpts.LocationOverride].FilePath
    ELSE IF Captured = <<>> THEN "" ELSE frame.File

\* The positions of the prefixes that occur in path.
Matching(path, prefixes) ==
    { i \in 1..Len(prefixes) : Occurrences(path, prefixes[i]) # {} }

\* C7: the emitted file path is the resolved path from the first occurrence
\* of the first prefix, in list order, that occurs in it, and the resolved
\* path itself when no prefix of the list occurs in it.
C7_PathCutAtFirstPrefixFound ==
    rpc \in {"emit", "done"} =>
        LET prefixes == tOpts.PathPrefixes.elems
            m == Matching(ResolvedPath, prefixes)
        IN  /\ m = {} => location.FilePath = ResolvedPath
            /\ m # {} =>
                 LET at == SetMin(Occurrences(ResolvedPath, prefixes[SetMin(m)]))
                 IN  location.FilePath =
                         SubSeq(ResolvedPath, at + 1, Len(ResolvedPath))
            /\ rpc = "done" => attrs[3].value = location.FilePath

\* Both prefixes of the list occur in the path, the second of them earlier,
\* and the path was cut at the first of the list.
C7_Witness ==
    /\ rpc = "done"
    /\ tOpts.PathPrefixes.elems = <<"pkg/", "src/">>
    /\ ResolvedPath = "/home/user/project/src/pkg/file.go"
    /\ attrs[3].value = "pkg/file.go"

----------------------------------------------------------------------------
(* Properties of the cache instance under concurrent calls *)

\* The methods that return an error beside the location.
ReturnsError(cl) == cl.kind \notin {"ThisCodeLocation", "WithThisCodeLocation"}

\* Goroutine g got the result r of a resolution.
GotResult(g, r) ==
    /\ ret[g].loc = r.loc
    /\ ReturnsError(call[g]) => ret[g].err = r.err

\* C1: however many goroutines call the resolution methods of one cache
\* instance, the underlying resolution runs at most once, it has run exactly
\* once when a call returns, and every call returns the result of that one
\* run.
C1_ResolutionRunsOnce ==
    /\ Len(resolved) <= 1
    /\ \A g \in Goroutines :
         pc[g] = "returned" => Len(resolved) = 1 /\ GotResult(g, resolved[1])
    /\ \A g, h \in Goroutines :
         (pc[g] = "returned" /\ pc[h] = "returned") =>
             /\ ret[g].loc = ret[h].loc
             /\ (ReturnsError(call[g]) /\ ReturnsError(call[h])) =>
                    ret[g].err = ret[h].err

\* Two calls of FunctionLocation with different functions have both returned.
C1_Witness ==
    \E g, h \in Goroutines :
        /\ pc[g] = "returned" /\ pc[h] = "returned"
        /\ call[g].kind = "FunctionLocation" /\ call[h].kind = "FunctionLocation"
        /\ call[g].function = HandlerFunc /\ call[h].function = OtherFunc
        /\ ret[g] = ret[h]
        /\ ret[g].loc # NilPtr

\* C2: once the guarded resolution has completed, Location and Err of the
\* instance stay what that resolution produced, no goroutine is inside the
\* guarded function again, and every cached method that returns, whatever its
\* arguments, returns exactly the stored values.
C2_StoredResultIsFixed ==
    cache.done = 1 =>
        /\ Len(resolved) >= 1
        /\ cache.Location = resolved[1].loc
        /\ cache.Err = resolved[1].err
        /\ \A g \in Goroutines :
             /\ pc[g] \notin {"run", "storeErr"}
             /\ pc[g] = "returned" =>
                  GotResult(g, [loc |-> cache.Location, err |-> cache.Err])

\* The resolution that ran was a ThisCodeLocation; a cached option helper
\* called with a value that is no function returned its location, and a
\* FunctionLocation call returned it too.
C2_Witness ==
    /\ cache.done = 1
    /\ cache.Location # NilPtr
    /\ heap[cache.Location].Function = FrameApp.Function
    /\ \E g, h \in Goroutines :
         /\ pc[g] = "returned" /\ pc[h] = "returned"
         /\ call[g].kind = "WithFunctionLocation"
         /\ call[g].function = IntValue
         /\ ret[g].override = cache.Location
         /\ call[h].kind = "FunctionLocation"
         /\ ret[h].loc = cache.Location

----------------------------------------------------------------------------
(* Properties of the stand-alone resolvers *)

\* The error classes of the specification.
InvalidArgument == {ErrNilFunction, ErrNotFunction}
NotFound == {ErrNoLocation}

\* C10: FunctionLocation returns an InvalidArgument error and no location
\* for nil and for a value that is no function, a NotFound error and no
\* location for a function without metadata, and otherwise the function's
\* location and no error; exactly one of location and error is set.
C10_FunctionLocationResults ==
    \A k \in 1..Len(results) :
        LET r == results[k]
            f == r.function
        IN  r.op = "FunctionLocation" =>
              /\ (f = NilFunction \/ f.kind # "func") =>
                    r.err \in InvalidArgument /\ r.loc = NilPtr
              /\ (f.kind = "func" /\ f.pc \notin DOMAIN FuncTable) =>
                    r.err \in NotFound /\ r.loc = NilPtr
              /\ (f.kind = "func" /\ f.pc \in DOMAIN FuncTable) =>
                    /\ r.err = NilErr
                    /\ r.loc \in 1..Len(heap)
                    /\ heap[r.loc] = LocationOf(f)
              /\ (r.loc = NilPtr) <=> (r.err # NilErr)
              /\ f = NilFunction => r.err = ErrNilFunction

\* A non-function, a function without metadata and a resolvable function
\* have all been resolved.
C10_Witness ==
    /\ \E k \in 1..Len(results) :
         results[k].function = IntValue /\ results[k].err = ErrNotFunction
    /\ \E k \in 1..Len(results) :
         results[k].function = NilFuncValue /\ results[k].err = ErrNoLocation
    /\ \E k \in 1..Len(results) :
         results[k].function = HandlerFunc /\ results[k].loc # NilPtr

----------------------------------------------------------------------------
(* Properties of the option fold *)

\* Every option of opts applied to st in order, with no early exit.
RECURSIVE ApplyAll(_, _)
ApplyAll(opts, st) ==
    IF opts = <<>> THEN st
    ELSE ApplyAll(Tail(opts), ApplyOption(Head(opts), st))

\* The state the fold started from.
FoldStart == [o |-> ZeroOptSet, heap |-> InitialHeap, r |-> NoResolution]

\* The positions after which SuppressCLM is true.
SuppressingAt ==
    { k \in 1..Len(options) :
        ApplyAll(SubSeq(options, 1, k), FoldStart).o.SuppressCLM }

\* The number of options a fold that stops at the first of them applies.
StopsAfter ==
    IF SuppressingAt = {} THEN Len(options) ELSE SetMin(SuppressingAt)

\* C3: resolveCLMTraceOptions applies the options left to right to a
\* zero-valued traceOptSet and stops at the first option after which
\* SuppressCLM is true: no later option is called, and the result is that of
\* the options up to that one alone.
C3_FoldStopsAtFirstSuppression ==
    /\ \A k \in 1..Len(trail) : trail[k].idx = k
    /\ trail # <<>> => trail[1].before = ZeroOptSet
    /\ \A k \in 1..(Len(trail) - 1) : ~trail[k].after.SuppressCLM
    /\ Len(trail) <= StopsAfter
    /\ optPc = "done" =>
         /\ Len(trail) = StopsAfter
         /\ optSet = ApplyAll(SubSeq(options, 1, StopsAfter), FoldStart).o

\* A fold that stopped before an option that would have set the override.
C3_Witness ==
    /\ optPc = "done"
    /\ optSet.SuppressCLM
    /\ Len(trail) < Len(options)
    /\ Len(trail) > 1
    /\ options[Len(trail) + 1].kind = "WithCodeLocation"
    /\ optSet.LocationOverride = NilPtr

DefaultKinds == {"WithDefaultFunctionLocation", "CachedWithDefaultFunctionLocation"}
FunctionKinds == DefaultKinds \cup {"WithFunctionLocation", "CachedWithFunctionLocation"}

\* C8: WithDefaultFunctionLocation, plain or cached, leaves an override that
\* an earlier option set as it is, and makes no resolution then; when it does
\* change the override, the override was unset, and the new one is the
\* function's location (plain) or the location the cache instance holds
\* (cached), whatever another goroutine does with the instance meanwhile.
C8_DefaultKeepsEarlierOverride ==
    \A k \in 1..Len(trail) :
        LET e == trail[k]
            opt == options[e.idx]
        IN  opt.kind \in DefaultKinds =>
              /\ e.before.LocationOverride # NilPtr =>
                   e.after = e.before /\ ~e.r.ran
              /\ e.before.LocationOverride = NilPtr => e.r.ran
              /\ e.after.LocationOverride # e.before.LocationOverride =>
                   /\ e.before.LocationOverride = NilPtr
                   /\ e.r.err = NilErr
                   /\ e.after.LocationOverride = e.r.loc
                   /\ e.after.LocationOverride \in 1..Len(heap)
                   /\ opt.kind = "WithDefaultFunctionLocation" =>
                        heap[e.after.LocationOverride] = LocationOf(opt.function)
                   /\ opt.kind = "CachedWithDefaultFunctionLocation" =>
                        /\ cache.done = 1
                        /\ e.after.LocationOverride = cache.Location

\* Both variants ran with a resolvable function after an override was set,
\* the cached one on an instance that no goroutine has used.
C8_Witness ==
    /\ \E k \in 1..Len(trail) :
         /\ options[trail[k].idx].kind = "WithDefaultFunctionLocation"
         /\ HasFuncInfo(options[trail[k].idx].function)
         /\ trail[k].before.LocationOverride = ExplicitPtr
    /\ \E k \in 1..Len(trail) :
         /\ options[trail[k].idx].kind = "CachedWithDefaultFunctionLocation"
         /\ HasFuncInfo(options[trail[k].idx].function)
         /\ trail[k].before.LocationOverride = ExplicitPtr
    /\ optSet.LocationOverride = ExplicitPtr
    /\ cache = FreshCache

\* Entry e made a function resolution, or read the one the cache instance
\* holds, and got an error.
ResolutionFailed(e) ==
    /\ options[e.idx].kind \in FunctionKinds
    /\ e.r.ran
    /\ e.r.err # NilErr

\* C9: when the function resolution of WithFunctionLocation or
\* WithDefaultFunctionLocation (plain or cached) returns an error, the option
\* leaves every field of the traceOptSet as it was, and the fold goes on.
C9_FailedResolutionIsNoOp ==
    /\ \A k \in 1..Len(trail) :
         ResolutionFailed(trail[k]) =>
             /\ trail[k].after = trail[k].before
             /\ trail[k].r.loc = NilPtr
    /\ \A k \in 1..Len(trail) :
         (options[trail[k].idx].kind \in FunctionKinds
            /\ trail[k].after # trail[k].before) =>
              trail[k].r.ran /\ trail[k].r.err = NilErr

\* A plain and a cached resolution failed while an earlier override was set.
C9_Witness ==
    /\ \E k \in 1..Len(trail) :
         /\ options[trail[k].idx].kind = "WithFunctionLocation"
         /\ ResolutionFailed(trail[k])
         /\ trail[k].before.LocationOverride = ExplicitPtr
    /\ \E k \in 1..Len(trail) :
         /\ options[trail[k].idx].kind = "CachedWithFunctionLocation"
         /\ ResolutionFailed(trail[k])
         /\ trail[k].before.LocationOverride = ExplicitPtr
         /\ cache.Err = ErrNoLocation
    /\ optSet.LocationOverride = ExplicitPtr

----------------------------------------------------------------------------
(* A cache instance whose resolution failed *)

\* The one resolution of the instance ran and returned an error.
FirstFailed == resolved # <<>> /\ resolved[1].err # NilErr

\* C11: when the first function resolution of a cache instance fails, the
\* error is stored in the instance, the resolution is never run again, every
\* call that returns gives that error and no location, whatever function it
\* passes, and a cached option helper leaves the override as it was.
C11_FailureIsCached ==
    FirstFailed =>
        /\ Len(resolved) = 1
        /\ cache.Location = NilPtr
        /\ cache.done = 1 => cache.Err = resolved[1].err
        /\ \A g \in Goroutines :
             pc[g] = "returned" =>
               /\ ret[g].loc = NilPtr
               /\ ReturnsError(call[g]) => ret[g].err = resolved[1].err
               /\ ret[g].override = call[g].override

\* The resolution of nil failed; a later FunctionLocation of a resolvable
\* function returned that error, and a cached WithFunctionLocation of a
\* resolvable function left the override unset.
C11_Witness ==
    /\ FirstFailed
    /\ resolved[1].err = ErrNilFunction
    /\ \E g, h \in Goroutines :
         /\ pc[g] = "returned" /\ pc[h] = "returned"
         /\ call[g].kind = "FunctionLocation" /\ call[g].function = HandlerFunc
         /\ ret[g].err = ErrNilFunction /\ ret[g].loc = NilPtr
         /\ call[h].kind = "WithFunctionLocation" /\ call[h].function = HandlerFunc
         /\ ret[h].override = NilPtr

----------------------------------------------------------------------------
(* The namespace and function attributes *)

\* C12: the function name is split at its last ".": the namespace emitted is
\* what precedes it and the function what follows it, so that namespace, "."
\* and function joined give the name and the function has no "."; a name
\* without "." gives an empty namespace and the whole name as function.
C12_SplitAtLastSeparator ==
    rpc = "done" =>
        LET name == location.Function
            namespace == attrs[2].value
            function == attrs[4].value
        IN  /\ Occurrences(function, ".") = {}
            /\ Occurrences(name, ".") # {} => namespace \o "." \o function = name
            /\ Occurrences(name, ".") = {} => namespace = "" /\ function = name

\* A name with several "." was split at the last of them.
C12_Witness ==
    /\ rpc = "done"
    /\ location.Function = FrameAgent.Function
    /\ attrs[2].value = "github.com/newrelic/go-agent/v3/newrelic.(*Application)"
    /\ attrs[4].value = "StartTransaction"

----------------------------------------------------------------------------
(* Callers that arrive while the resolution runs *)

\* The positions inside doSlow, where the mutex is held.
InsideDoSlow == {"check", "run", "storeErr", "setDone", "unlock"}

\* C13: a goroutine that calls a cached resolution method while the one
\* resolution of the instance is running waits for it: at most one goroutine is
\* past the mutex, no call returns before the resolution has completed and
\* done is set, a call that returns gives the stored result, and under fair
\* scheduling every call that has reached once.Do returns.
C13_WaitersBlockThenReturn ==
    /\ [](\A g \in Goroutines :
            pc[g] = "returned" =>
              /\ cache.done = 1
              /\ Len(resolved) = 1
              /\ GotResult(g, resolved[1]))
    /\ [](\A g, h \in Goroutines :
            (pc[g] \in InsideDoSlow /\ pc[h] \in InsideDoSlow) => g = h)
    /\ \A g \in Goroutines :
         (pc[g] \in {"once", "lock"}) ~> (pc[g] = "returned")

\* One goroutine is in the middle of the resolution (Location is assigned,
\* Err and done are not) and another waits for the mutex.
C13_Witness ==
    \E g, h \in Goroutines :
        /\ pc[h] = "storeErr"
        /\ onceM = h
        /\ cache.done = 0
        /\ pc[g] = "lock"
        /\ call[g].kind = "FunctionLocation"

----------------------------------------------------------------------------
(* The lists a report falls back on *)

\* The lists the configuration gives a report whose settings have none.
AmbientIgnoredPrefixes(cfg) == DefaultIgnoredPrefixes(NilSlice, cfg)
AmbientPathPrefixes(cfg) == DefaultPathPrefixes(NilSlice, cfg)

\* The list of the settings when it has elements, the ambient one otherwise.
SettingsOrAmbient(list, ambient) ==
    IF list.elems # <<>> THEN list.elems ELSE ambient.elems

\* The report has walked the stack: its ignore list was used.
IgnoreListUsed ==
    /\ reportIn.tOpts.LocationOverride = NilPtr
    /\ Captured # <<>>
    /\ rpc \in {"walk", "located", "paths", "emit", "done"}

\* C14 as claimed: without an override the frames are tested against the
\* IgnoredPrefixes of the settings when that list has elements and against the
\* ambient default list when it has none, be it nil or of length zero; the
\* path prefixes used to trim are chosen by the same rule.
C14_AmbientListsWhenEmpty ==
    /\ IgnoreListUsed =>
         tOpts.IgnoredPrefixes.elems =
             SettingsOrAmbient(reportIn.tOpts.IgnoredPrefixes,
                               AmbientIgnoredPrefixes(reportIn.config))
    /\ rpc \in {"emit", "done"} =>
         tOpts.PathPrefixes.elems =
             SettingsOrAmbient(reportIn.tOpts.PathPrefixes,
                               AmbientPathPrefixes(reportIn.config))

\* The report walked the stack with settings that have no IgnoredPrefixes.
DefaultIgnoreListUsed == IgnoreListUsed /\ reportIn.tOpts.IgnoredPrefixes.nil

\* C15: the ignore list a report without IgnoredPrefixes of its own falls back
\* on has the agent's project root among its elements, whatever the
\* configuration.  Lines 411-420 add the project root only when the
\* configuration gives no prefix at all.
C15_ProjectRootAlwaysIgnored ==
    DefaultIgnoreListUsed =>
        \E i \in 1..Len(tOpts.IgnoredPrefixes.elems) :
            tOpts.IgnoredPrefixes.elems[i] = defaultAgentProjectRoot

\* The configuration sets the legacy IgnoredPrefix alone; the frames were
\* tested against it only, and a frame of the agent was reported.
C15_Witness ==
    /\ rpc = "done"
    /\ DefaultIgnoreListUsed
    /\ reportIn.config.IgnoredPrefixes.nil
    /\ reportIn.config.IgnoredPrefix = "mypkg/"
    /\ tOpts.IgnoredPrefixes.elems = <<"mypkg/">>
    /\ Captured = <<FrameAgent, FrameApp>>
    /\ attrs[4].value = "StartTransaction"

----------------------------------------------------------------------------
(* Demanded and suppressed reporting *)

\* C16: WithCodeLevelMetrics never undoes a suppression: the traceOptSet that
\* resolveCLMTraceOptions returns for options that include
\* WithoutCodeLevelMetrics has SuppressCLM set, wherever WithCodeLevelMetrics
\* stands among them, and a call of WithCodeLevelMetrics changes DemandCLM and
\* no other field.
C16_DemandKeepsSuppression ==
    /\ (optPc = "done"
          /\ \E i \in 1..Len(options) : options[i].kind = "WithoutCodeLevelMetrics")
         => optSet.SuppressCLM
    /\ \A k \in 1..Len(trail) :
         options[trail[k].idx].kind = "WithCodeLevelMetrics" =>
             trail[k].after = [trail[k].before EXCEPT !.DemandCLM = TRUE]

\* WithCodeLevelMetrics stands before and after WithoutCodeLevelMetrics: the
\* first of the two ran, the second did not, and the result is suppressed.
C16_Witness ==
    /\ optPc = "done"
    /\ Len(options) = 3
    /\ options[1].kind = "WithCodeLevelMetrics"
    /\ options[2].kind = "WithoutCodeLevelMetrics"
    /\ options[3].kind = "WithCodeLevelMetrics"
    /\ optSet.SuppressCLM
    /\ optSet.DemandCLM
    /\ Len(trail) = 2

----------------------------------------------------------------------------
(* The cached resolution of the caller's location *)

\* The skip count a skipLevels argument stands for.
SkipOf(skipLevels) == IF Len(skipLevels) > 0 THEN skipLevels[1] ELSE 0

\* C17: the c.ThisCodeLocation(k) that finds the cache instance fresh, and so
\* runs the resolution, gives the location that ThisCodeLocation(k) gives at
\* the same call site: frame k of the call site's stack, the 4 that the
\* method adds to the skip count being the number of frames it puts between
\* its caller and ThisCodeLocation; both give the zero CodeLocation when the
\* stack has no frame k.
C17_CachedSkipMatchesUncached ==
    \A j \in 1..Len(resolved) :
        LET e == resolved[j]
            cl == e.call
            u == ThisCodeLocation(cl.skipLevels, cl.site, heap)
            skip == SkipOf(cl.skipLevels)
        IN  cl.kind = "ThisCodeLocation" =>
              /\ e.loc \in 1..Len(heap)
              /\ heap[e.loc] = u.heap[u.loc]
              /\ skip < Len(cl.site) =>
                   heap[e.loc] = MkLocation(cl.site[skip + 1].Line,
                                            cl.site[skip + 1].Function,
                                            cl.site[skip + 1].File)
              /\ skip >= Len(cl.site) => heap[e.loc] = ZeroLocation
              /\ \A g \in Goroutines :
                   (pc[g] = "returned" /\ call[g] = cl) =>
                       ret[g].loc = e.loc

\* The call that ran the resolution skipped one frame of a stack of two and
\* returned the outer one; a later call with another skip count got it too.
C17_Witness ==
    \E g, h \in Goroutines :
        /\ resolved # <<>>
        /\ resolved[1].call = call[g]
        /\ pc[g] = "returned"
        /\ call[g].kind = "ThisCodeLocation"
        /\ call[g].skipLevels = <<1>>
        /\ call[g].site = <<FrameApp, FrameLib>>
        /\ heap[ret[g].loc].Function = FrameLib.Function
        /\ pc[h] = "returned"
        /\ call[h].kind = "ThisCodeLocation"
        /\ call[h].skipLevels = <<>>
        /\ ret[h].loc = ret[g].loc

----------------------------------------------------------------------------
(* Options copied from a prepared traceOptSet *)

\* C18: withPreparedOptions(newOptions) assigns LocationOverride,
\* IgnoredPrefixes and PathPrefixes from newOptions where its field is not nil
\* and keeps the current value where it is nil; it assigns SuppressCLM and
\* DemandCLM from newOptions always, so a DemandCLM that an earlier option set
\* goes back to false; with a nil newOptions it changes nothing.
C18_PreparedOptionsCopy ==
    \A k \in 1..Len(trail) :
        LET opt == options[trail[k].idx]
            b == trail[k].before
            a == trail[k].after
            n == opt.prep.v
        IN  opt.kind = "withPreparedOptions" =>
              /\ opt.prep.nil => a = b
              /\ ~opt.prep.nil =>
                   /\ a.LocationOverride =
                        IF n.LocationOverride # NilPtr
                        THEN n.LocationOverride ELSE b.LocationOverride
                   /\ a.IgnoredPrefixes =
                        IF ~n.IgnoredPrefixes.nil
                        THEN n.IgnoredPrefixes ELSE b.IgnoredPrefixes
                   /\ a.PathPrefixes =
                        IF ~n.PathPrefixes.nil
                        THEN n.PathPrefixes ELSE b.PathPrefixes
                   /\ a.SuppressCLM = n.SuppressCLM
                   /\ a.DemandCLM = n.DemandCLM

\* A prepared set with an override and DemandCLM false was copied over an
\* explicit override and a demand: both were replaced, and the path prefixes
\* became the empty list of the prepared set.
C18_Witness ==
    \E k \in 1..Len(trail) :
        /\ options[trail[k].idx] = OptPrepared(OptSetPtr(PreparedFull))
        /\ trail[k].before.DemandCLM
        /\ trail[k].before.LocationOverride = ExplicitPtr
        /\ ~trail[k].after.DemandCLM
        /\ trail[k].after.LocationOverride = PreparedPtr
        /\ trail[k].after.PathPrefixes = MkSlice(<<>>)

----------------------------------------------------------------------------
(* The location an override points to *)

\* The report of goroutine g works on the location the cache instance holds.
ReportsShared(g) ==
    /\ rep[g].n > 0
    /\ rep[g].reportIn.tOpts.LocationOverride # NilPtr
    /\ rep[g].reportIn.tOpts.LocationOverride = cache.Location

\* C19: a report never writes to the CodeLocation its LocationOverride points
\* to.  It copies the value, so no step of a report changes the heap or the
\* cache instance that holds the pointer.  While goroutines report the
\* location of one cache instance, each several times and with their steps
\* in any order, the location keeps the line, function and file path its
\* resolution gave it, and every completed report has emitted that line and
\* the file path trimmed by its own prefixes.
C19_ReportLeavesOverrideAsItWas ==
    /\ [][rep' # rep => (heap' = heap /\ cache' = cache)]_vars
    /\ [](/\ \A p \in 1..Len(InitialHeap) : heap[p] = InitialHeap[p]
          /\ \A j \in 1..Len(resolved) :
               resolved[j].loc # NilPtr =>
                   heap[resolved[j].loc] = LocationOf(resolved[j].call.function)
          /\ \A g \in Goroutines :
               LET l == rep[g]
                   ptr == l.reportIn.tOpts.LocationOverride
               IN  (l.n > 0 /\ ptr # NilPtr) =>
                     /\ ptr = cache.Location
                     /\ l.rpc \in {"paths", "emit", "done"} =>
                          /\ l.location.LineNo = heap[ptr].LineNo
                          /\ l.location.Function = heap[ptr].Function
                     /\ l.rpc \in {"emit", "done"} =>
                          l.location.FilePath =
                              TrimPath(heap[ptr].FilePath, l.tOpts.PathPrefixes.elems)
                     /\ l.rpc = "done" =>
                          /\ l.attrs[1].other = heap[ptr].LineNo
                          /\ l.attrs[3].value =
                                 TrimPath(heap[ptr].FilePath,
                                          l.tOpts.PathPrefixes.elems))

\* Two goroutines are inside reports of the location the cache instance
\* holds, one of them in its second report: each has trimmed its own copy of
\* the file path, at a different prefix, and the location has the whole path.
C19_Witness ==
    /\ ReportsShared(FirstReporter)
    /\ ReportsShared(SecondReporter)
    /\ rep[FirstReporter].n = 2
    /\ rep[FirstReporter].rpc = "emit"
    /\ rep[FirstReporter].location.FilePath = "pkg/file.go"
    /\ rep[SecondReporter].rpc = "emit"
    /\ rep[SecondReporter].location.FilePath = "project/src/pkg/file.go"
    /\ heap[cache.Location].FilePath = "/home/user/project/src/pkg/file.go"

----------------------------------------------------------------------------
(* When the cached options resolve *)

\* Entry e of the trail is a cached option that has to resolve: a cached
\* WithFunctionLocation, or a cached WithDefaultFunctionLocation called with
\* the override unset.
NeedsResolution(e) ==
    /\ options[e.idx].kind \in CachedKinds
    /\ options[e.idx].kind = "CachedWithDefaultFunctionLocation" =>
           e.before.LocationOverride = NilPtr

\* The guarded resolution has run in the closure of an option, that is, in
\* the goroutine that folds the options.
FoldResolved ==
    \E j \in 1..Len(resolved) :
        resolved[j].call.kind \in {"WithFunctionLocation",
                                   "WithDefaultFunctionLocation"}

\* C20: the cached function-location options resolve when they are called and
\* need the location, not before: an option that stands after a suppressing
\* one is never called, and a cached WithDefaultFunctionLocation called with
\* the override set returns without reaching the guard.  The fold runs the
\* resolution only inside a cached option that needs the location, so a
\* cache instance that no other goroutine resolves is unresolved (done 0,
\* Location and Err nil, mutex free) for as long as no such option has been
\* called.
C20_CachedOptionsResolveLazily ==
    /\ \A k \in 1..Len(trail) :
         /\ trail[k].idx = k
         /\ k < Len(trail) => ~trail[k].after.SuppressCLM
         /\ options[k].kind \in CachedKinds =>
              /\ trail[k].r.ran <=> NeedsResolution(trail[k])
              /\ ~trail[k].r.ran => trail[k].after = trail[k].before
    /\ (trail # <<>> /\ trail[Len(trail)].after.SuppressCLM) =>
         optPc = "done" /\ pc[Folder] = "idle"
    /\ pc[Folder] # "idle" =>
         /\ optPc = "loop"
         /\ optIdx = Len(trail) + 1
         /\ optIdx <= Len(options)
         /\ options[optIdx].kind \in CachedKinds
         /\ (pc[Folder] = "skipped") <=>
                (/\ options[optIdx].kind = "CachedWithDefaultFunctionLocation"
                 /\ optSet.LocationOverride # NilPtr)
    /\ FoldResolved =>
         \/ \E k \in 1..Len(trail) : NeedsResolution(trail[k])
         \/ pc[Folder] \notin {"idle", "skipped"}
    /\ resolved = <<>> => cache = FreshCache /\ (onceM # 0 => pc[onceM] \in {"check", "run"})

\* A cached WithDefaultFunctionLocation was called with the override set: the
\* fold is over, no resolution was made and the cache instance is unresolved.
C20_Witness ==
    /\ optPc = "done"
    /\ options = << OptCodeLocation(ExplicitPtr),
                    OptCachedDefaultFunctionLocation(OtherFunc),
                    OptWithoutCLM >>
    /\ Len(trail) = 3
    /\ ~trail[2].r.ran
    /\ resolved = <<>>
    /\ cache = FreshCache

====
